---- MODULE Spec2Model ----
(***************************************************************************)
(* A state-machine model of src/index.ts: the /pr-review and               *)
(* /pr-review-loop commands of the PR review extension.                    *)
(*                                                                         *)
(* JavaScript runs one callback at a time, so every action below is the    *)
(* code that runs between two awaits of one invocation: it starts when an  *)
(* awaited operation of the host (pi.exec, the spawn grace period,         *)
(* rpcPromptAndWait, killAgent) returns and ends at the next await.        *)
(* The workers, the shell and the host are the environment: their answers  *)
(* are the parameters of the actions.                                      *)
(***************************************************************************)
EXTENDS Integers, Sequences, FiniteSets, TLC

\* ------------------------------------------------------------------ bounds

\* command invocations in one session
MaxRuns == 2
\* largest value given to PR_REVIEW_MAX_ROUNDS
MaxRoundsSetting == 3
\* largest value given to PR_REVIEW_MAX_CYCLES
MaxCyclesSetting == 3
\* largest number of lines of a consensus text that is enumerated
MaxLines == 3

\* ------------------------------------------------------- program constants

DEFAULT_MAX_ROUNDS == 3
DEFAULT_MAX_CYCLES == 5

Runs == 1..MaxRuns
\* A SubAgent is named by the invocation and cycle that spawned it and its
\* reviewer name; NoAgent stands for no agent.
Agent(r, cycle, name) == <<r, cycle, name>>
NoAgent == <<0, 0, "">>

Max(a, b) == IF a >= b THEN a ELSE b
Min(a, b) == IF a <= b THEN a ELSE b

\* ---------------------------------------------------------------- getConfig

\* JavaScript values that getConfig handles, as records [t, n]: undefined,
\* strings (the empty string, a decimal numeral, a numeral followed by other
\* characters such as "2.5" or "3x", a text with no leading numeral) and
\* numbers (an integer or NaN).  n is the integer involved, 0 otherwise.
Undefined == [t |-> "undefined", n |-> 0]
EmptyString == [t |-> "empty", n |-> 0]
Text == [t |-> "text", n |-> 0]
Numeral(i) == [t |-> "numeral", n |-> i]
NumeralJunk(i) == [t |-> "numeral+junk", n |-> i]
Number(i) == [t |-> "number", n |-> i]
NaN == [t |-> "nan", n |-> 0]

\* String(i) for an integer i
String(i) == Numeral(i)

\* parseInt(text, 10): the integer of the leading numeral, NaN without one.
parseInt(v) ==
    IF v.t \in {"numeral", "numeral+junk"} THEN Number(v.n) ELSE NaN

\* a || b: undefined, "", NaN and 0 are falsy; every non-empty string is truthy.
Falsy(v) == \/ v.t \in {"undefined", "empty", "nan"}
            \/ v.t = "number" /\ v.n = 0
OrElse(a, b) == IF Falsy(a) THEN b ELSE a

\* parseInt(process.env.X || String(DEFAULT), 10) || DEFAULT
numericSetting(env, default) ==
    OrElse(parseInt(OrElse(env, String(default))), Number(default)).n

getConfig(envRounds, envCycles) ==
    [ maxRounds |-> numericSetting(envRounds, DEFAULT_MAX_ROUNDS),
      maxCycles |-> numericSetting(envCycles, DEFAULT_MAX_CYCLES),
      mergeBase |-> "" ]

\* ----------------------------------------------------------- worker texts

\* A debate response is a sequence of words; the words that matter are the
\* bold markers, in any letter case, and look-alikes that are no marker.
Markers == { "**Agreed**", "**AGREED**", "**Partially agreed**",
             "**partially AGREED**", "**Disagreed**", "**disagreed**" }
Words == Markers \cup { "Agreed", "prose" }

\* the lower-case form of a word, for the regular expressions' i flag
Lower(w) ==
    CASE w \in {"**Agreed**", "**AGREED**"} -> "**agreed**"
      [] w \in {"**Partially agreed**", "**partially AGREED**"} -> "**partially agreed**"
      [] w \in {"**Disagreed**", "**disagreed**"} -> "**disagreed**"
      [] w = "Agreed" -> "agreed"
      [] OTHER -> w

\* (text.match(/marker/gi) || []).length
RECURSIVE MatchCount(_, _)
MatchCount(text, marker) ==
    IF text = <<>> THEN 0
    ELSE (IF Lower(Head(text)) = marker THEN 1 ELSE 0)
         + MatchCount(Tail(text), marker)

\* Scores are kept in half points: the code's agreed + partial * 0.5 is
\* countAgreements / 2, and every sum and comparison of the code is the same
\* on the doubled values.
countAgreements(debateResponse) ==
    LET agreed == MatchCount(debateResponse, "**agreed**")
        partial == MatchCount(debateResponse, "**partially agreed**")
    IN 2 * agreed + partial

\* (debate.match(/\*\*Disagreed\*\*/gi) || []).length
countDisagreements(debateResponse) == MatchCount(debateResponse, "**disagreed**")

\* A consensus text is a sequence of lines [k, v]:
\*   k = "verdict"  a line "### Verdict: v"
\*   k = "h3"       a line "### v ..." (any other third-level heading)
\*   k = "item"     a numbered line "<digits>. v"
\*   k = "none"     a line holding the word None
\*   k = "prose"    any other line
Line(k, v) == [k |-> k, v |-> v]

\* v.toUpperCase() for the verdict words used
Upper(v) ==
    CASE v \in {"APPROVE", "approve"} -> "APPROVE"
      [] v \in {"CHANGES REQUIRED", "changes required"} -> "CHANGES REQUIRED"
      [] OTHER -> v

\* a match that reads a text without a CHANGES REQUIRED verdict as approval
VerdictMatch_ApprovesByDefault(raw) ==
    IF \E i \in 1..Len(raw) :
          raw[i].k = "verdict" /\ raw[i].v \in {"CHANGES REQUIRED", "changes required"}
    THEN "CHANGES REQUIRED" ELSE "APPROVE"

\* /###\s*Verdict:\s*(APPROVE|CHANGES REQUIRED)/i.exec(raw): the word of the
\* first verdict line that states one of the two words, "" without a match.
RECURSIVE VerdictMatch(_)
VerdictMatch(raw) ==
    IF raw = <<>> THEN ""
    ELSE IF /\ Head(raw).k = "verdict"
            /\ Upper(Head(raw).v) \in {"APPROVE", "CHANGES REQUIRED"}
         THEN Head(raw).v
         ELSE VerdictMatch(Tail(raw))

IsHeading(line) == line.k \in {"h3", "verdict"}

\* the lines of text up to the next "###" or the end of the text
RECURSIVE UpToHeading(_)
UpToHeading(text) ==
    IF text = <<>> \/ IsHeading(Head(text)) THEN <<>>
    ELSE <<Head(text)>> \o UpToHeading(Tail(text))

\* raw.match(/###\s*<title>[\s\S]*?(?=###|$)/i)?.[0] || "": the first heading
\* with one of the titles and the lines below it, <<>> without such a heading.
RECURSIVE Section(_, _)
Section(raw, titles) ==
    IF raw = <<>> THEN <<>>
    ELSE IF Head(raw).k = "h3" /\ Head(raw).v \in titles
         THEN <<Head(raw)>> \o UpToHeading(Tail(raw))
         ELSE Section(Tail(raw), titles)

HasNone(section) == \E i \in 1..Len(section) : section[i].k = "none"
HasNumbered(section) == \E i \in 1..Len(section) : section[i].k = "item"
Numbered(section) == SelectSeq(section, LAMBDA l : l.k = "item")

countItems(section) ==
    IF HasNone(section) /\ ~HasNumbered(section) THEN 0
    ELSE Len(Numbered(section))

extractItems(section) ==
    IF HasNone(section) /\ ~HasNumbered(section) THEN <<>>
    ELSE [i \in 1..Len(Numbered(section)) |-> Numbered(section)[i].v]

parseConsensus(raw) ==
    [ raw |-> raw,
      verdict |-> IF Upper(VerdictMatch(raw)) = "APPROVE"
                  THEN "APPROVE" ELSE "CHANGES REQUIRED",
      criticalCount |-> countItems(Section(raw, {"Critical Issues"})),
      warningCount |-> countItems(Section(raw, {"Warnings"})),
      dismissedItems |->
          extractItems(Section(raw, {"Dismissed Non-Issues", "Agreed Non-Issues"})) ]

\* a clean check that lets warnings pass
cleanCheck_IgnoresWarnings(consensus) ==
    /\ consensus.verdict = "APPROVE"
    /\ consensus.criticalCount = 0

\* the clean check of the loop
cleanCheck(consensus) ==
    /\ consensus.verdict = "APPROVE"
    /\ consensus.criticalCount = 0
    /\ consensus.warningCount = 0

\* an accumulation that keeps only the last cycle's items
accumulate_Replaces(allDismissedItems, dismissedItems) == dismissedItems

\* allDismissedItems = [...allDismissedItems, ...result.consensus.dismissedItems]
accumulate(allDismissedItems, dismissedItems) == allDismissedItems \o dismissedItems

\* loop conditions that are off by one, below and above
moreCycles_StopsEarly(cycle, maxCycles) == cycle < maxCycles
moreCycles_OneMore(cycle, maxCycles) == cycle <= maxCycles + 1

\* a push that keeps only the new entry
push_Replaces(history, entry) == <<entry>>

\* history.push(entry)
push(history, entry) == Append(history, entry)

\* the condition of the loop over the cycles
moreCycles(cycle, maxCycles) == cycle <= maxCycles

\* the condition of the loop over the debate rounds
moreRounds(round, maxRounds) == round <= maxRounds

\* a convergence check that reads only reviewer A's response
converged_OnlyA(disagreementsA, disagreementsB) == disagreementsA = 0

\* the convergence check of a debate round
converged(disagreementsA, disagreementsB) == disagreementsA + disagreementsB = 0

\* ------------------------------------------------------- formatFinalReport

Undef == "undefined"

\* a result line that looks at the verdict of the last entry only
resultLine_VerdictOnly(history) ==
    IF history # <<>> /\ history[Len(history)].consensus.verdict = "APPROVE"
    THEN "APPROVED" ELSE "issues remain"

\* the result line: APPROVED when there is a last entry and it is APPROVE with
\* no critical and no warning item, "issues remain" otherwise
resultLine(history) ==
    LET n == Len(history)
        approved == /\ n > 0
                    /\ history[n].consensus.verdict = "APPROVE"
                    /\ history[n].consensus.criticalCount = 0
                    /\ history[n].consensus.warningCount = 0
    IN IF approved THEN "APPROVED" ELSE "issues remain"

\* The report as its parts: the result line, one block per cycle, and the
\* raw text of the last consensus (<<>> when the history is empty).
formatFinalReport(history) ==
    LET n == Len(history)
    IN [ result |-> resultLine(history),
         cycles |-> n,
         blocks |-> [i \in 1..n |->
                       [ cycle |-> history[i].cycle,
                         verdict |-> history[i].consensus.verdict,
                         critical |-> history[i].consensus.criticalCount,
                         warnings |-> history[i].consensus.warningCount,
                         fixedBy |-> history[i].fixerName,
                         fixCommit |-> history[i].fixCommit,
                         dismissed |-> Len(history[i].consensus.dismissedItems) ]],
         final |-> IF n > 0 THEN history[n].consensus.raw ELSE <<>> ]

\* -------------------------------------------------------------------- state

VARIABLES
    activeAgents,   \* the extension's activeAgents: a sequence of agent handles
    phase,          \* the extension's phase label
    cycleInfo,      \* the extension's cycleInfo label
    widgetTimer,    \* whether the widget timer is set
    agents,         \* every SubAgent spawned so far, by its handle
    shutdown,       \* the session_shutdown handler: position and agents left
    pc,             \* per invocation: the await it is suspended at
    command,        \* per invocation: the command invoked
    config,         \* per invocation: the ReviewConfig
    cyc,            \* per invocation: the locals of runReviewCycle
    loop,           \* per invocation: the locals of the background run
    iter,           \* per invocation: the agents cleanupAll still has to visit
    out,            \* per invocation: notifications and user messages emitted
    obs             \* per invocation: what the run has done so far (a history
                    \* variable: the dismissed items passed to each cycle, the
                    \* fix prompts sent, how the run ended)

vars == << activeAgents, phase, cycleInfo, widgetTimer, agents, shutdown,
           pc, command, config, cyc, loop, iter, out, obs >>

\* a phase label with its numbers, e.g. <<"debate round", 1, 3>>
Ph(label, a, b) == <<label, a, b>>
NoPhase == Ph("", 0, 0)
\* cycleInfo: <<>> for "", <<c, m>> for "[cycle c/m]"
NoCycleInfo == <<>>

\* values of locals that hold nothing yet
NoResponse == [from |-> NoAgent]
NoSend == [st |-> "none"]
NoResult == [winner |-> NoAgent]

NoConfig == [maxRounds |-> 0, maxCycles |-> 0, mergeBase |-> ""]

NoCycle ==
    [ agentA |-> NoAgent, agentB |-> NoAgent, dismissedItems |-> <<>>,
      spawning |-> NoAgent,
      sendA |-> NoSend, sendB |-> NoSend, sendW |-> NoSend,
      lastResponseA |-> NoResponse, lastResponseB |-> NoResponse,
      agreedByA |-> 0, agreedByB |-> 0, round |-> 0,
      log |-> <<>>,
      winner |-> NoAgent, loser |-> NoAgent, winnerName |-> "" ]

NoLoop ==
    [ cycle |-> 0, history |-> <<>>, allDismissedItems |-> <<>>,
      result |-> NoResult, send |-> NoSend, thrown |-> FALSE ]

NoOut == [notified |-> <<>>, messages |-> <<>>]
NoObs == [passed |-> <<>>, fixPrompts |-> 0, ended |-> ""]

Init ==
    /\ activeAgents = <<>>
    /\ phase = NoPhase
    /\ cycleInfo = NoCycleInfo
    /\ widgetTimer = FALSE
    /\ agents = [h \in {} |-> 0]
    /\ shutdown = [st |-> "none", todo |-> <<>>, held |-> {}]
    /\ pc = [r \in Runs |-> "idle"]
    /\ command = [r \in Runs |-> "none"]
    /\ config = [r \in Runs |-> NoConfig]
    /\ cyc = [r \in Runs |-> NoCycle]
    /\ loop = [r \in Runs |-> NoLoop]
    /\ iter = [r \in Runs |-> <<>>]
    /\ out = [r \in Runs |-> NoOut]
    /\ obs = [r \in Runs |-> NoObs]

\* The whole state as one record, so that a piece of code is an operator from
\* state to state and code that runs in sequence is their composition.
St ==
    [ activeAgents |-> activeAgents, phase |-> phase, cycleInfo |-> cycleInfo,
      widgetTimer |-> widgetTimer, agents |-> agents, shutdown |-> shutdown,
      pc |-> pc, command |-> command,
      config |-> config, cyc |-> cyc, loop |-> loop, iter |-> iter,
      out |-> out, obs |-> obs ]

Commit(S) ==
    /\ activeAgents' = S.activeAgents
    /\ phase' = S.phase
    /\ cycleInfo' = S.cycleInfo
    /\ widgetTimer' = S.widgetTimer
    /\ agents' = S.agents
    /\ shutdown' = S.shutdown
    /\ pc' = S.pc
    /\ command' = S.command
    /\ config' = S.config
    /\ cyc' = S.cyc
    /\ loop' = S.loop
    /\ iter' = S.iter
    /\ out' = S.out
    /\ obs' = S.obs

\* ------------------------------------------------------ host and workers

\* ctx.ui.notify(text, level)
notify(S, r, level, kind) ==
    [S EXCEPT !.out[r].notified = Append(@, [level |-> level, kind |-> kind])]

\* pi.sendUserMessage(text): the completion channel of a background run
sendUserMessage(S, r, message) ==
    [S EXCEPT !.out[r].messages = Append(@, message)]

\* the three messages of the program
ReviewComplete(raw) == [kind |-> "review complete", raw |-> raw]
FinalReport(history) == [kind |-> "report", report |-> formatFinalReport(history)]
PartialReport(history) ==
    [kind |-> "partial", cycles |-> Len(history),
     report |-> formatFinalReport(history)]

startWidgetTimer(S) == [S EXCEPT !.widgetTimer = TRUE]
stopWidgetTimer(S) == [S EXCEPT !.widgetTimer = FALSE]

\* spawnRpcAgent: a new SubAgent, inside its grace period
NewAgent(S, r, name) == Agent(r, S.loop[r].cycle, name)
spawnRpcAgent(S, r, name) ==
    [S EXCEPT !.agents = (NewAgent(S, r, name) :>
                             [run |-> r, name |-> name, cycle |-> S.loop[r].cycle,
                              started |-> "grace", kills |-> 0])
                         @@ @]

\* the liveness check of spawnAndWait: agent.proc.exitCode !== null throws
checked(S, h, alive) ==
    [S EXCEPT !.agents[h].started = IF alive THEN "yes" ELSE "no"]

\* killAgent(agent) is invoked (the call; its promise settles later)
killAgent(S, h) == [S EXCEPT !.agents[h].kills = @ + 1]

\* an await that lets the rejection of killAgent through
catchIgnored_Propagates(ok) == ok

\* killAgent(agent).catch(() => {}): the awaited promise fulfils whether
\* killAgent resolved (ok) or rejected.
catchIgnored(ok) == TRUE

\* rpcPromptAndWait(agent, prompt, onProgress) is invoked: a pending send
Pending(h, prompt) ==
    [st |-> "pending", to |-> h, prompt |-> prompt, resp |-> NoResponse]
\* the text a worker returns, labelled with who wrote it and in which round
\* of the debate (0: the independent review)
Response(h, round, body) == [from |-> h, round |-> round, body |-> body]

\* the prompts, as the parts of their text that vary
reviewPrompt(mergeBase, dismissedItems) ==
    [kind |-> "review", mergeBase |-> mergeBase, dismissed |-> dismissedItems]
debatePrompt(otherName, otherReview, dismissedItems) ==
    [kind |-> "debate", otherName |-> otherName, other |-> otherReview,
     dismissed |-> dismissedItems]
consensusPrompt == [kind |-> "consensus"]
buildFixPrompt(consensus, mergeBase) ==
    [kind |-> "fix", critical |-> consensus.criticalCount,
     warnings |-> consensus.warningCount, consensus |-> consensus.raw]

\* pi.exec results: [threw, code, stdout]; stdout.trim() on the outputs used
Trim(stdout) ==
    CASE stdout = "abc1234\n" -> "abc1234"
      [] stdout = " \n" -> ""
      [] OTHER -> stdout

\* a test of the exit code alone
ExecOk_IgnoresOutput(res) == res.code = 0

\* result.code === 0 && result.stdout.trim()
ExecOk(res) == res.code = 0 /\ Trim(res.stdout) # ""

\* -------------------------------------------------------------- cleanupAll

\* a cleanup that ends without emptying activeAgents
cleanupFrom_KeepsHandles(S, r, todo) ==
    IF todo = <<>>
    THEN [S EXCEPT !.phase = NoPhase,
                   !.cycleInfo = NoCycleInfo, !.iter[r] = <<>>,
                   !.cyc[r] = NoCycle, !.loop[r] = NoLoop,
                   !.pc[r] = "done"]
    ELSE [killAgent(S, Head(todo)) EXCEPT !.iter[r] = Tail(todo),
                                           !.pc[r] = "cleanup"]

\* the for loop of cleanupAll from the agents still to visit, and its end
cleanupFrom(S, r, todo) ==
    IF todo = <<>>
    THEN [S EXCEPT !.activeAgents = <<>>, !.phase = NoPhase,
                   !.cycleInfo = NoCycleInfo, !.iter[r] = <<>>,
                   !.cyc[r] = NoCycle, !.loop[r] = NoLoop,
                   !.pc[r] = "done"]
    ELSE [killAgent(S, Head(todo)) EXCEPT !.iter[r] = Tail(todo),
                                           !.pc[r] = "cleanup"]

cleanupAll(S, r) == cleanupFrom(stopWidgetTimer(S), r, S.activeAgents)

\* the catch and finally blocks of the two background runs
catchError(S, r) ==
    LET S1 == notify(S, r, "error", "failed")
        history == S.loop[r].history
        S2 == IF S.command[r] = "pr-review-loop" /\ Len(history) > 0
              THEN sendUserMessage(S1, r, PartialReport(history))
              ELSE S1
    IN cleanupAll([S2 EXCEPT !.obs[r].ended = "failed",
                             !.cyc[r] = NoCycle, !.loop[r] = NoLoop], r)

\* ---------------------------------------------------------- runReviewCycle

\* from the call to the first await: the grace period of reviewer A
runReviewCycle(S, r, dismissedItems) ==
    LET S1 == [S EXCEPT !.phase = Ph("spawning reviewers", 0, 0)]
        S2 == spawnRpcAgent(S1, r, "reviewer-a")
    IN [S2 EXCEPT !.cyc[r] = [NoCycle EXCEPT !.spawning = NewAgent(S, r, "reviewer-a"),
                                             !.dismissedItems = dismissedItems],
                  !.obs[r].passed = Append(@, dismissedItems),
                  !.pc[r] = "graceA"]

\* a comparison that gives a tie to reviewer B
aWins_Strict(agreedByA, agreedByB) == agreedByB > agreedByA

\* const aWins = agreedByB >= agreedByA
aWins(agreedByA, agreedByB) == agreedByB >= agreedByA

\* winner selection up to the await of killAgent(loser)

selectWinner(S, r) ==
    LET c == S.cyc[r]
        a == aWins(c.agreedByA, c.agreedByB)
        winner == IF a THEN c.agentA ELSE c.agentB
        loser == IF a THEN c.agentB ELSE c.agentA
        winnerName == IF a THEN "reviewer-a" ELSE "reviewer-b"
        S1 == [S EXCEPT !.phase = Ph(IF a THEN "reviewer-a writing consensus"
                                          ELSE "reviewer-b writing consensus", 0, 0),
                        !.activeAgents = <<winner>>,
                        !.cyc[r].winner = winner,
                        !.cyc[r].loser = loser,
                        !.cyc[r].winnerName = winnerName]
    IN [killAgent(S1, loser) EXCEPT !.pc[r] = "killLoser"]

\* a debate round that sends each reviewer its own last response
debateRound_SendsOwn(S, r, round) ==
    LET c == S.cyc[r]
        maxRounds == S.config[r].maxRounds
    IN IF moreRounds(round, maxRounds)
       THEN [S EXCEPT
                  !.phase = Ph("debate round", round, maxRounds),
                  !.cyc[r].round = round,
                  !.cyc[r].sendA = Pending(c.agentA,
                      debatePrompt("reviewer-b", c.lastResponseA, c.dismissedItems)),
                  !.cyc[r].sendB = Pending(c.agentB,
                      debatePrompt("reviewer-a", c.lastResponseB, c.dismissedItems)),
                  !.pc[r] = "debate"]
       ELSE selectWinner(S, r)

\* the head of the debate loop for one value of round
debateRound(S, r, round) ==
    LET c == S.cyc[r]
        maxRounds == S.config[r].maxRounds
    IN IF moreRounds(round, maxRounds)
       THEN LET S1 == [S EXCEPT !.phase = Ph("debate round", round, maxRounds)]
            IN [S1 EXCEPT
                  !.cyc[r].round = round,
                  !.cyc[r].sendA = Pending(c.agentA,
                      debatePrompt("reviewer-b", c.lastResponseB, c.dismissedItems)),
                  !.cyc[r].sendB = Pending(c.agentB,
                      debatePrompt("reviewer-a", c.lastResponseA, c.dismissedItems)),
                  !.pc[r] = "debate"]
       ELSE selectWinner(S, r)

\* both independent reviews are in: the start of phase 2
reviewsDone(S, r, reviewA, reviewB) ==
    debateRound([S EXCEPT !.cyc[r].lastResponseA = reviewA,
                          !.cyc[r].lastResponseB = reviewB,
                          !.cyc[r].agreedByB = 0,
                          !.cyc[r].agreedByA = 0,
                          !.cyc[r].sendA = NoSend,
                          !.cyc[r].sendB = NoSend], r, 1)

\* both responses of a debate round are in: scoring and the convergence check
roundDone(S, r, debateA, debateB) ==
    LET c == S.cyc[r]
        disagreementsA == countDisagreements(debateA.body)
        disagreementsB == countDisagreements(debateB.body)
        S1 == [S EXCEPT
                 !.cyc[r].agreedByA = @ + countAgreements(debateA.body),
                 !.cyc[r].agreedByB = @ + countAgreements(debateB.body),
                 !.cyc[r].lastResponseA = debateA,
                 !.cyc[r].lastResponseB = debateB,
                 !.cyc[r].sendA = NoSend,
                 !.cyc[r].sendB = NoSend,
                 !.cyc[r].log = Append(@, [a |-> debateA.body, b |-> debateB.body])]
    IN IF converged(disagreementsA, disagreementsB)
       THEN selectWinner(S1, r)
       ELSE debateRound(S1, r, c.round + 1)

\* ------------------------------------------------------ the background runs

\* the loop statement of /pr-review-loop for one value of cycle: the next
\* review cycle, or the lines after the loop (max cycles reached)
loopIteration(S, r, cycle) ==
    LET maxCycles == S.config[r].maxCycles
    IN IF moreCycles(cycle, maxCycles)
       THEN runReviewCycle([S EXCEPT !.cycleInfo = <<cycle, maxCycles>>,
                                     !.loop[r].cycle = cycle],
                           r, S.loop[r].allDismissedItems)
       ELSE LET S1 == [S EXCEPT !.phase = Ph("max cycles reached", 0, 0),
                                !.obs[r].ended = "max"]
            IN cleanupAll(sendUserMessage(S1, r, FinalReport(S.loop[r].history)), r)

\* the handler after the merge base is known, up to the first await of the
\* background run it starts
startBackground(S, r, mergeBase) ==
    LET S1 == notify([S EXCEPT !.config[r].mergeBase = mergeBase], r, "info", "starting")
        S2 == startWidgetTimer(S1)
    IN IF S.command[r] = "pr-review"
       THEN runReviewCycle([S2 EXCEPT !.cycleInfo = NoCycleInfo], r, <<>>)
       ELSE loopIteration([S2 EXCEPT !.loop[r] = NoLoop], r, 1)

\* /pr-review after runReviewCycle has returned, up to await killAgent(winner)
singleAfterCycle(S, r, result) ==
    LET S1 == [S EXCEPT !.phase = Ph("complete", 0, 0), !.loop[r].result = result]
        S2 == sendUserMessage(S1, r, ReviewComplete(result.consensus.raw))
    IN [killAgent(S2, result.winner) EXCEPT !.pc[r] = "killWinner"]

\* /pr-review-loop after runReviewCycle has returned: accumulation, the
\* history entry, the clean check and the start of the fix
loopAfterCycle(S, r, result) ==
    LET cycle == S.loop[r].cycle
        maxCycles == S.config[r].maxCycles
        entry == [cycle |-> cycle, consensus |-> result.consensus,
                  fixerName |-> Undef, fixCommit |-> Undef]
        S1 == [S EXCEPT
                 !.loop[r].result = result,
                 !.loop[r].allDismissedItems =
                     accumulate(@, result.consensus.dismissedItems),
                 !.loop[r].history = push(@, entry)]
        last == Len(S1.loop[r].history)
    IN IF cleanCheck(result.consensus)
       THEN [killAgent([S1 EXCEPT !.phase = Ph("all clean", 0, 0)], result.winner)
                EXCEPT !.pc[r] = "killClean"]
       ELSE LET S2 == [S1 EXCEPT
                         !.phase = Ph(IF result.winnerName = "reviewer-a"
                                      THEN "reviewer-a fixing issues"
                                      ELSE "reviewer-b fixing issues", 0, 0),
                         !.cycleInfo = <<cycle, maxCycles>>,
                         !.activeAgents = <<result.winner>>,
                         !.loop[r].history[last].fixerName = result.winnerName]
                fixPrompt == buildFixPrompt(result.consensus, S.config[r].mergeBase)
            IN [S2 EXCEPT
                  !.loop[r].send = Pending(result.winner, fixPrompt),
                  !.obs[r].fixPrompts = @ + 1,
                  !.pc[r] = "fix"]

\* a finally block that leaves the winner running
finallyFix_KeepsWinner(S, r) == [S EXCEPT !.pc[r] = "killFix"]

\* the finally block of the fix step, up to await killAgent(winner)
finallyFix(S, r) ==
    [killAgent(S, S.loop[r].result.winner) EXCEPT !.pc[r] = "killFix"]

\* ------------------------------------------------------------ session_shutdown

shutdownFrom(S, todo) ==
    IF todo = <<>>
    THEN [S EXCEPT !.activeAgents = <<>>, !.shutdown.st = "done",
                   !.shutdown.todo = <<>>]
    ELSE [killAgent(S, Head(todo)) EXCEPT !.shutdown.st = "killing",
                                           !.shutdown.todo = Tail(todo)]

\* ------------------------------------------------------------------ actions

\* Callbacks of the session run until its shutdown handler has finished.
SessionOpen == shutdown.st \in {"none", "killing"}

\* the gate of both command handlers
gateClosed(S) == Len(S.activeAgents) > 0

\* A command is invoked: the gate, getConfig, and the first merge-base lookup.
Invoke(r, cmd, envRounds, envCycles) ==
    /\ shutdown.st = "none"
    /\ pc[r] = "idle"
    /\ \A q \in 1..(r - 1) : pc[q] # "idle"
    /\ LET S0 == [St EXCEPT !.command[r] = cmd]
       IN IF gateClosed(S0)
          THEN Commit([notify(S0, r, "error", "already running")
                          EXCEPT !.pc[r] = "rejected"])
          ELSE Commit([S0 EXCEPT !.config[r] = getConfig(envRounds, envCycles),
                                 !.pc[r] = "mb1"])

\* git merge-base HEAD origin/main has returned
MergeBaseOrigin(r, res) ==
    /\ SessionOpen
    /\ pc[r] = "mb1"
    /\ IF res.threw THEN Commit([St EXCEPT !.pc[r] = "threw"])
       ELSE IF ExecOk(res) THEN Commit(startBackground(St, r, Trim(res.stdout)))
       ELSE Commit([St EXCEPT !.pc[r] = "mb2"])

\* git merge-base HEAD main has returned
MergeBaseMain(r, res) ==
    /\ SessionOpen
    /\ pc[r] = "mb2"
    /\ IF res.threw THEN Commit([St EXCEPT !.pc[r] = "threw"])
       ELSE IF ExecOk(res) THEN Commit(startBackground(St, r, Trim(res.stdout)))
       ELSE Commit([notify(St, r, "error", "no merge base")
                       EXCEPT !.pc[r] = "aborted"])

\* the grace period of reviewer A is over; alive: agent.proc.exitCode === null
GraceA(r, alive) ==
    /\ SessionOpen
    /\ pc[r] = "graceA"
    /\ IF alive
       THEN LET S0 == checked(St, cyc[r].spawning, alive)
                S1 == spawnRpcAgent([S0 EXCEPT !.cyc[r].agentA = cyc[r].spawning],
                                    r, "reviewer-b")
            IN Commit([S1 EXCEPT !.cyc[r].spawning = NewAgent(St, r, "reviewer-b"),
                                 !.pc[r] = "graceB"])
       ELSE Commit(catchError(checked(St, cyc[r].spawning, alive), r))

\* the grace period of reviewer B is over: the active agents are set and
\* both independent reviews are requested
GraceB(r, alive) ==
    /\ SessionOpen
    /\ pc[r] = "graceB"
    /\ IF alive
       THEN LET agentA == cyc[r].agentA
                agentB == cyc[r].spawning
                prompt == reviewPrompt(config[r].mergeBase, cyc[r].dismissedItems)
                S1 == [checked(St, agentB, alive) EXCEPT
                         !.activeAgents = <<agentA, agentB>>,
                         !.phase = Ph("independent reviews (parallel)", 0, 0)]
            IN Commit([S1 EXCEPT !.cyc[r].agentB = agentB,
                                 !.cyc[r].spawning = NoAgent,
                                 !.cyc[r].sendA = Pending(agentA, prompt),
                                 !.cyc[r].sendB = Pending(agentB, prompt),
                                 !.pc[r] = "review"])
       ELSE Commit(catchError(checked(St, cyc[r].spawning, alive), r))

Slot(c, who) == IF who = "A" THEN c.sendA ELSE c.sendB
setSend(S, r, who, v) ==
    IF who = "A" THEN [S EXCEPT !.cyc[r].sendA = v]
                 ELSE [S EXCEPT !.cyc[r].sendB = v]

\* a join that is fulfilled by the first of the two sends
joined_Either(c) == c.sendA.st = "done" \/ c.sendB.st = "done"

\* Promise.all of the two sends of a phase: fulfilled when both are
joined(c) == c.sendA.st = "done" /\ c.sendB.st = "done"

\* one of the two independent reviews has returned (ok) or failed
ReviewReturns(r, who, ok, body) ==
    /\ SessionOpen
    /\ pc[r] = "review"
    /\ Slot(cyc[r], who).st = "pending"
    /\ IF ok
       THEN LET slot == Slot(cyc[r], who)
                S1 == setSend(St, r, who,
                          [st |-> "done", to |-> slot.to, prompt |-> slot.prompt,
                           resp |-> Response(slot.to, cyc[r].round, body)])
                c == S1.cyc[r]
            IN IF joined(c)
               THEN Commit(reviewsDone(S1, r, c.sendA.resp, c.sendB.resp))
               ELSE Commit(S1)
       ELSE Commit(catchError(St, r))

\* one of the two responses of a debate round has returned (ok) or failed
DebateReturns(r, who, ok, body) ==
    /\ SessionOpen
    /\ pc[r] = "debate"
    /\ Slot(cyc[r], who).st = "pending"
    /\ IF ok
       THEN LET slot == Slot(cyc[r], who)
                S1 == setSend(St, r, who,
                          [st |-> "done", to |-> slot.to, prompt |-> slot.prompt,
                           resp |-> Response(slot.to, cyc[r].round, body)])
                c == S1.cyc[r]
            IN IF joined(c)
               THEN Commit(roundDone(S1, r, c.sendA.resp, c.sendB.resp))
               ELSE Commit(S1)
       ELSE Commit(catchError(St, r))

\* killAgent(loser) has settled: the consensus is requested from the winner
LoserKilled(r, ok) ==
    /\ SessionOpen
    /\ pc[r] = "killLoser"
    /\ LET S0 == St
           winner == cyc[r].winner
       IN IF catchIgnored(ok)
          THEN Commit([S0 EXCEPT
                         !.cyc[r] = [NoCycle EXCEPT
                                       !.winner = winner,
                                       !.loser = cyc[r].loser,
                                       !.winnerName = cyc[r].winnerName,
                                       !.sendW = Pending(winner, consensusPrompt)],
                         !.pc[r] = "consensus"])
          ELSE Commit(catchError(S0, r))

\* the consensus text has returned (ok) or the send failed: runReviewCycle
\* returns to the command that called it
ConsensusReturns(r, ok, raw) ==
    /\ SessionOpen
    /\ pc[r] = "consensus"
    /\ IF ok
       THEN LET c == cyc[r]
                result == [consensus |-> parseConsensus(raw), winner |-> c.winner,
                           loser |-> c.loser, winnerName |-> c.winnerName]
                S1 == [St EXCEPT !.cyc[r] = NoCycle]
            IN IF command[r] = "pr-review"
               THEN Commit(singleAfterCycle(S1, r, result))
               ELSE Commit(loopAfterCycle(S1, r, result))
       ELSE Commit(catchError(St, r))

\* /pr-review: killAgent(winner) has settled; the finally block runs
WinnerKilled(r, ok) ==
    /\ SessionOpen
    /\ pc[r] = "killWinner"
    /\ LET S0 == St
       IN IF catchIgnored(ok)
          THEN Commit(cleanupAll([S0 EXCEPT !.obs[r].ended = "complete"], r))
          ELSE Commit(catchError(S0, r))

\* /pr-review-loop, clean: killAgent(winner) has settled; report and return
CleanWinnerKilled(r, ok) ==
    /\ SessionOpen
    /\ pc[r] = "killClean"
    /\ LET S0 == St
       IN IF catchIgnored(ok)
          THEN LET S1 == [S0 EXCEPT !.activeAgents = <<>>, !.obs[r].ended = "clean"]
               IN Commit(cleanupAll(
                      sendUserMessage(S1, r, FinalReport(loop[r].history)), r))
          ELSE Commit(catchError(S0, r))

\* the fix prompt has returned (ok) or the send failed
FixReturns(r, ok) ==
    /\ SessionOpen
    /\ pc[r] = "fix"
    /\ IF ok
       THEN Commit([St EXCEPT !.loop[r].send = NoSend, !.pc[r] = "commit"])
       ELSE Commit(finallyFix([St EXCEPT !.loop[r].send = NoSend,
                                         !.loop[r].thrown = TRUE], r))

\* git rev-parse --short HEAD has returned
CommitReturns(r, res) ==
    /\ SessionOpen
    /\ pc[r] = "commit"
    /\ IF res.threw
       THEN Commit(finallyFix([St EXCEPT !.loop[r].thrown = TRUE], r))
       ELSE LET last == Len(loop[r].history)
            IN Commit(finallyFix(
                   [St EXCEPT !.loop[r].history[last].fixCommit =
                        IF res.code = 0 THEN Trim(res.stdout) ELSE Undef], r))

\* the fix step's killAgent(winner) has settled: the rest of the finally
\* block, then the catch block or the next iteration
FixWinnerKilled(r, ok) ==
    /\ SessionOpen
    /\ pc[r] = "killFix"
    /\ LET S0 == St
       IN IF catchIgnored(ok)
          THEN LET S1 == [S0 EXCEPT !.activeAgents = <<>>]
               IN IF loop[r].thrown
                  THEN Commit(catchError(S1, r))
                  ELSE Commit(loopIteration(
                         [S1 EXCEPT !.phase = Ph("cycle complete, starting next review",
                                                 loop[r].cycle, 0)],
                         r, loop[r].cycle + 1))
          ELSE Commit(catchError(S0, r))

\* cleanupAll: one killAgent has settled
CleanupKilled(r, ok) ==
    /\ SessionOpen
    /\ pc[r] = "cleanup"
    /\ LET S0 == St
       IN IF catchIgnored(ok)
          THEN Commit(cleanupFrom(S0, r, iter[r]))
          ELSE Commit([S0 EXCEPT !.pc[r] = "crashed"])

\* the session_shutdown event
Shutdown ==
    /\ shutdown.st = "none"
    /\ LET held == {h \in DOMAIN agents :
                       agents[h].kills = 0 /\ agents[h].started # "no"}
           S1 == [stopWidgetTimer(St) EXCEPT !.shutdown.held = held]
       IN Commit(shutdownFrom(S1, activeAgents))

\* the shutdown handler: one killAgent has settled
ShutdownKilled(ok) ==
    /\ shutdown.st = "killing"
    /\ LET S0 == St
       IN IF catchIgnored(ok)
          THEN Commit(shutdownFrom(S0, shutdown.todo))
          ELSE Commit([S0 EXCEPT !.shutdown.st = "crashed"])

\* ------------------------------------------------------- the environment

Commands == {"pr-review", "pr-review-loop"}

\* values of PR_REVIEW_MAX_ROUNDS and PR_REVIEW_MAX_CYCLES: numerals up to max
\* (the numeral 0 is a setting that getConfig replaces by the default)
Numerals(max) == {Numeral(i) : i \in (-1..max) \ {0}}

Threw == [threw |-> TRUE, code |-> 0, stdout |-> ""]
Exited(code, stdout) == [threw |-> FALSE, code |-> code, stdout |-> stdout]

MergeBaseResults ==
    { Threw, Exited(0, "abc1234\n"), Exited(0, " \n"), Exited(1, "") }
CommitResults == { Threw, Exited(0, "abc1234\n"), Exited(1, "") }

\* a consensus in the format the consensus prompt asks for
Consensus(verdict, critical, warnings, dismissed) ==
    <<Line("prose", "")>> \o <<Line("verdict", verdict)>>
    \o <<Line("h3", "Critical Issues")>> \o critical
    \o <<Line("h3", "Warnings")>> \o warnings
    \o <<Line("h3", "Suggestions"), Line("none", "")>>
    \o <<Line("h3", "Dismissed Non-Issues")>> \o dismissed
    \o <<Line("h3", "Summary"), Line("prose", "")>>
None == <<Line("none", "")>>

CleanText == Consensus("APPROVE", None, None, <<Line("item", "d1")>>)
ApproveWithWarning == Consensus("APPROVE", None, <<Line("item", "w1")>>, None)
OneCritical ==
    Consensus("CHANGES REQUIRED", <<Line("item", "c1")>>, None,
              <<Line("item", "d2"), Line("item", "d1")>>)

\* What the environment may answer in a specification: the commands and
\* settings of an invocation, the shell's results and the workers' texts.
SessionEnv ==
    [ commands |-> Commands,
      rounds |-> {Numeral(1)},
      cycles |-> {Numeral(2)},
      mergeBase |-> MergeBaseResults,
      commit |-> {Exited(0, "abc1234\n")},
      reviews |-> { <<"prose">> },
      debates |-> { <<"**Agreed**">> },
      texts |-> { CleanText, OneCritical } ]

CycleEnv ==
    [ commands |-> Commands,
      rounds |-> Numerals(MaxRoundsSetting),
      cycles |-> {Numeral(1)},
      mergeBase |-> {Exited(0, "abc1234\n"), Exited(1, "")},
      commit |-> {Exited(0, "abc1234\n")},
      reviews |-> { <<"prose">>, <<"**Agreed**">> },
      debates |-> { <<"**Agreed**">>, <<"**AGREED**", "**partially AGREED**">>,
                    <<"**Disagreed**", "**Partially agreed**">>,
                    <<"Agreed", "prose", "**disagreed**">> },
      texts |-> { CleanText, OneCritical } ]

LoopEnv ==
    [ commands |-> Commands,
      rounds |-> {Numeral(1)},
      cycles |-> Numerals(MaxCyclesSetting),
      mergeBase |-> {Exited(0, "abc1234\n"), Exited(1, "")},
      commit |-> CommitResults,
      reviews |-> { <<"prose">> },
      debates |-> { <<"**Agreed**">>, <<"**Disagreed**", "**Partially agreed**">> },
      texts |-> { CleanText, ApproveWithWarning, OneCritical } ]

\* the lines a consensus text is made of, and all texts of up to n lines
Lines ==
    { Line("verdict", "APPROVE"), Line("verdict", "approve"),
      Line("verdict", "CHANGES REQUIRED"), Line("verdict", "undecided"),
      Line("h3", "Critical Issues"), Line("h3", "Warnings"),
      Line("h3", "Dismissed Non-Issues"),
      Line("item", "x"), Line("none", ""), Line("prose", "APPROVE") }
Texts(n) == UNION { [1..k -> Lines] : k \in 0..n }

ParseEnv ==
    [ commands |-> Commands,
      rounds |-> {Numeral(1)},
      cycles |-> {Numeral(1)},
      mergeBase |-> {Exited(0, "abc1234\n"), Exited(1, "")},
      commit |-> {Exited(0, "abc1234\n")},
      reviews |-> { <<"prose">> },
      debates |-> { <<"**Agreed**">> },
      texts |-> Texts(MaxLines) \cup {CleanText, ApproveWithWarning, OneCritical} ]

GateEnv ==
    [ commands |-> Commands,
      rounds |-> {Numeral(1)},
      cycles |-> {Numeral(1)},
      mergeBase |-> {Exited(0, "abc1234\n"), Exited(0, " \n"), Exited(1, "")},
      commit |-> {Exited(0, "abc1234\n")},
      reviews |-> { <<"prose">> },
      debates |-> { <<"**Agreed**">> },
      texts |-> { CleanText, OneCritical } ]

\* every kind of value an environment variable of a setting can have: absent,
\* empty, without a leading numeral, and numerals from -1 to max, alone or
\* followed by other characters
Settings(max) ==
    {Undefined, EmptyString, Text}
    \cup {Numeral(i) : i \in -1..max} \cup {NumeralJunk(i) : i \in -1..max}

ConfigEnv ==
    [ commands |-> Commands,
      rounds |-> Settings(MaxRoundsSetting),
      cycles |-> Settings(MaxCyclesSetting),
      mergeBase |-> {Exited(0, "abc1234\n"), Exited(1, "")},
      commit |-> {Exited(0, "abc1234\n")},
      reviews |-> { <<"prose">> },
      debates |-> { <<"**Disagreed**">> },
      texts |-> { CleanText, OneCritical } ]

\* the winner answers the consensus prompt with one of the texts, or fails
ConsensusArrives(r, texts) ==
    /\ pc[r] = "consensus"
    /\ \E ok \in BOOLEAN, raw \in texts : ConsensusReturns(r, ok, raw)

\* one step of invocation r in environment E
RunStep(r, E) ==
    \/ \E cmd \in E.commands, er \in E.rounds, ec \in E.cycles :
          Invoke(r, cmd, er, ec)
    \/ \E res \in E.mergeBase : MergeBaseOrigin(r, res)
    \/ \E res \in E.mergeBase : MergeBaseMain(r, res)
    \/ \E alive \in BOOLEAN : GraceA(r, alive)
    \/ \E alive \in BOOLEAN : GraceB(r, alive)
    \/ \E who \in {"A", "B"}, ok \in BOOLEAN, body \in E.reviews :
          ReviewReturns(r, who, ok, body)
    \/ \E who \in {"A", "B"}, ok \in BOOLEAN, body \in E.debates :
          DebateReturns(r, who, ok, body)
    \/ \E ok \in BOOLEAN : LoserKilled(r, ok)
    \/ ConsensusArrives(r, E.texts)
    \/ \E ok \in BOOLEAN : WinnerKilled(r, ok)
    \/ \E ok \in BOOLEAN : CleanWinnerKilled(r, ok)
    \/ \E ok \in BOOLEAN : FixReturns(r, ok)
    \/ \E res \in E.commit : CommitReturns(r, res)
    \/ \E ok \in BOOLEAN : FixWinnerKilled(r, ok)
    \/ \E ok \in BOOLEAN : CleanupKilled(r, ok)

\* A session: up to MaxRuns invocations, overlapping or one after another.
Next == \E r \in Runs : RunStep(r, SessionEnv)
Spec == Init /\ [][Next]_vars

\* One invocation and the shutdown of the session.
NextShutdown ==
    \/ RunStep(1, SessionEnv)
    \/ Shutdown
    \/ \E ok \in BOOLEAN : ShutdownKilled(ok)
SpecShutdown == Init /\ [][NextShutdown]_vars

\* One invocation, with the debate's inputs varied.
NextCycle == RunStep(1, CycleEnv)
SpecCycle == Init /\ [][NextCycle]_vars

\* One invocation, with the loop's inputs varied.
NextLoop == RunStep(1, LoopEnv)
SpecLoop == Init /\ [][NextLoop]_vars

\* A session of short runs: invocations that overlap or follow one another.
NextGate == \E r \in Runs : RunStep(r, GateEnv)
SpecGate == Init /\ [][NextGate]_vars

\* The same session when every operation a run awaits (the shell call, the
\* spawn grace period, a send, a termination) eventually returns or fails:
\* the callback of an invocation that is suspended at an await eventually
\* runs.  Nothing obliges the user to invoke a command.
Resumes(r) == pc[r] # "idle" /\ RunStep(r, GateEnv)
SpecGateLive == SpecGate /\ \A r \in Runs : WF_vars(Resumes(r))

\* One invocation, with the consensus text varied.
NextParse == RunStep(1, ParseEnv)
SpecParse == Init /\ [][NextParse]_vars

\* One invocation, with the two numeric settings varied.
NextConfig == RunStep(1, ConfigEnv)
SpecConfig == Init /\ [][NextConfig]_vars

\* ------------------------------------------------------------------ claims

\* an invocation that passed the gate and whose cleanup has not finished
Active(r) ==
    pc[r] \notin {"idle", "rejected", "aborted", "threw", "done", "crashed"}

\* the agents invocation r spawned whose process passed (or may still pass)
\* the liveness check
Spawned(r) ==
    {h \in DOMAIN agents : agents[h].run = r /\ agents[h].started # "no"}

\* C1: while a run is active (from passing the gate to the end of its
\* cleanup), every further invocation of either command is rejected and
\* spawns no agent.
C1_FurtherInvocationRejected ==
    [][\A r \in Runs :
          (pc[r] = "idle" /\ pc'[r] # "idle" /\ \E q \in Runs \ {r} : Active(q))
             => (pc'[r] = "rejected" /\ agents' = agents)]_vars

\* C2: when a run has finished, killAgent has been invoked on every agent
\* that was spawned during that run.
C2_NoHandleLeaked ==
    \A r \in Runs : pc[r] = "done" => \A h \in Spawned(r) : agents[h].kills >= 1

\* C3: killAgent is never invoked twice on the same agent in a run.
C3_NeverTerminatedTwice ==
    \A h \in DOMAIN agents : agents[h].kills <= 1

\* C4: when the shutdown handler has finished, killAgent has been invoked on
\* every agent that was spawned and not yet terminated when the signal came.
C4_ShutdownTerminatesHeld ==
    shutdown.st = "done" => \A h \in shutdown.held : agents[h].kills >= 1

\* ---- the loop (/pr-review-loop)

LoopRun(r) == command[r] = "pr-review-loop"
Terminated(h) == agents[h].kills >= 1
\* a clean consensus, and its block in a report
Clean(c) == c.verdict = "APPROVE" /\ c.criticalCount = 0 /\ c.warningCount = 0
CleanBlock(b) == b.verdict = "APPROVE" /\ b.critical = 0 /\ b.warnings = 0
CriticalBlock(b) == b.verdict = "CHANGES REQUIRED" /\ b.critical = 1
\* the report in the last message the run has sent
Delivered(r) == out[r].messages[Len(out[r].messages)].report

\* C5: The loop stops at the first cycle whose consensus is APPROVE with no
\* critical and no warning item: no earlier cycle of the history is clean;
\* when the last entry is clean the winner has been terminated, that cycle has
\* no fix prompt and no fixer, and no further cycle has been started; when the
\* last entry is not clean (for example APPROVE with one warning) the loop has
\* not stopped there but sent the fix prompt; and the report delivered at the
\* stop says APPROVED, has one block per cycle started, the clean one last,
\* and one fix prompt for each cycle before it (none when the first cycle is
\* clean).
C5_StopsAtFirstClean ==
    \A r \in Runs : LoopRun(r) =>
        LET h == loop[r].history
            n == Len(h)
        IN /\ \A i \in 1..(n - 1) : ~Clean(h[i].consensus)
           /\ (n > 0 /\ Clean(h[n].consensus)) =>
                 /\ pc[r] = "killClean"
                 /\ Terminated(loop[r].result.winner)
                 /\ h[n].fixerName = Undef
                 /\ obs[r].fixPrompts = n - 1
                 /\ Len(obs[r].passed) = n
           /\ (n > 0 /\ ~Clean(h[n].consensus)) =>
                 /\ pc[r] # "killClean"
                 /\ h[n].fixerName # Undef
                 /\ obs[r].fixPrompts = n
           /\ obs[r].ended = "clean" =>
                 /\ Len(out[r].messages) = 1
                 /\ Delivered(r).result = "APPROVED"
                 /\ Delivered(r).cycles = Len(obs[r].passed)
                 /\ Delivered(r).cycles >= 1
                 /\ CleanBlock(Delivered(r).blocks[Delivered(r).cycles])
                 /\ \A i \in 1..(Delivered(r).cycles - 1) :
                       ~CleanBlock(Delivered(r).blocks[i])
                 /\ obs[r].fixPrompts = Delivered(r).cycles - 1

\* a loop that went on after APPROVE with one warning and stopped at the
\* clean consensus of its second cycle
C5_Witness ==
    \E r \in Runs :
        /\ LoopRun(r) /\ pc[r] = "done" /\ obs[r].ended = "clean"
        /\ Delivered(r).cycles = 2
        /\ Delivered(r).blocks[1].verdict = "APPROVE"
        /\ Delivered(r).blocks[1].warnings = 1
        /\ obs[r].fixPrompts = 1

\* C6: A loop with max cycles = N never starts more than N review cycles, and
\* a loop that neither met a clean consensus nor failed has performed exactly
\* N of them when it stops: it delivers one report, of N cycles, none of them
\* clean, whose result line is the "issues remain" one. (A setting below 1
\* gives no cycle at all.)
C6_ExactlyMaxCycles ==
    \A r \in Runs : LoopRun(r) =>
        LET N == Max(config[r].maxCycles, 0)
        IN /\ Len(obs[r].passed) <= N
           /\ loop[r].cycle <= N
           /\ pc[r] = "done" => obs[r].ended \in {"clean", "max", "failed"}
           /\ obs[r].ended = "max" =>
                 /\ Len(obs[r].passed) = N
                 /\ Len(out[r].messages) = 1
                 /\ Delivered(r).cycles = N
                 /\ Delivered(r).result = "issues remain"
                 /\ \A i \in 1..N : ~CleanBlock(Delivered(r).blocks[i])

\* a loop of max cycles 3 that stopped after its third cycle
C6_Witness ==
    \E r \in Runs :
        /\ LoopRun(r) /\ pc[r] = "done" /\ obs[r].ended = "max"
        /\ config[r].maxCycles = 3
        /\ Delivered(r).cycles = 3
        /\ Delivered(r).result = "issues remain"

\* every cycle of the run's report is CHANGES REQUIRED with 1 critical item
AlwaysCritical(r) ==
    \A i \in 1..Delivered(r).cycles : CriticalBlock(Delivered(r).blocks[i])
Exhausted(r) ==
    LoopRun(r) /\ obs[r].ended = "max" /\ config[r].maxCycles >= 1

\* C7, as stated: a loop that ran out of cycles, each CHANGES REQUIRED with 1
\* critical item, has sent max cycles - 1 fix prompts.
C7_OneFixLessThanCycles ==
    \A r \in Runs : (Exhausted(r) /\ AlwaysCritical(r)) =>
        obs[r].fixPrompts = config[r].maxCycles - 1

\* C7, amended: such a loop has sent max cycles fix prompts, one after every
\* review cycle, the last cycle included: every block of its report names the
\* fixer.
C7_FixAfterEveryCycle ==
    \A r \in Runs : (Exhausted(r) /\ AlwaysCritical(r)) =>
        /\ obs[r].fixPrompts = config[r].maxCycles
        /\ \A i \in 1..Delivered(r).cycles :
              Delivered(r).blocks[i].fixedBy # Undef

\* a loop of max cycles 3, always CHANGES REQUIRED with 1 critical item
C7_Witness ==
    \E r \in Runs :
        /\ Exhausted(r) /\ AlwaysCritical(r)
        /\ config[r].maxCycles = 3
        /\ obs[r].fixPrompts = 3

\* C8: Within one loop run the dismissed items passed into cycle 1 are none,
\* and those passed into cycle N+1 are those passed into cycle N followed by
\* the dismissed items of cycle N's consensus, in order and with duplicates
\* kept; the review and debate prompts of a cycle carry the sequence passed
\* into it.
C8_DismissedAppendOnly ==
    \A r \in Runs : (LoopRun(r) /\ loop[r].cycle > 0) =>
        LET p == obs[r].passed
            h == loop[r].history
            n == loop[r].cycle
        IN /\ Len(p) = n
           /\ Len(h) \in {n - 1, n}
           /\ p[1] = <<>>
           /\ \A i \in 1..(n - 1) :
                 p[i + 1] = p[i] \o h[i].consensus.dismissedItems
           /\ pc[r] \in {"review", "debate"} =>
                 /\ cyc[r].sendA.prompt.dismissed = p[n]
                 /\ cyc[r].sendB.prompt.dismissed = p[n]

\* the third cycle of a loop whose first two cycles dismissed the same items
C8_Witness ==
    \E r \in Runs :
        /\ LoopRun(r) /\ loop[r].cycle = 3 /\ pc[r] = "review"
        /\ obs[r].passed[2] = <<"d2", "d1">>
        /\ obs[r].passed[3] = <<"d2", "d1", "d2", "d1">>

\* ---- one review cycle

\* the markers of a debate response, counted word by word
Count(body, words) == Cardinality({i \in DOMAIN body : body[i] \in words})
DisagreedMarkers(body) == Count(body, {"**Disagreed**", "**disagreed**"})
AgreedMarkers(body) == Count(body, {"**Agreed**", "**AGREED**"})
PartialMarkers(body) ==
    Count(body, {"**Partially agreed**", "**partially AGREED**"})
\* a round whose two responses hold no Disagreed marker
ConvergedRound(e) == DisagreedMarkers(e.a) + DisagreedMarkers(e.b) = 0

\* C9: The debate performs min(r, maxRounds) rounds, r the first converged
\* round. While a debate prompt is out, no round before it has converged and
\* its round is within maxRounds; at winner selection the rounds performed are
\* at most maxRounds, none but the last has converged, the last has converged
\* if fewer than maxRounds were performed, and no failure has been reported.
C9_DebateRounds ==
    \A r \in Runs :
        LET log == cyc[r].log
            n == Len(log)
            m == config[r].maxRounds
        IN /\ pc[r] = "debate" =>
                 /\ cyc[r].round = n + 1
                 /\ cyc[r].round <= m
                 /\ \A i \in 1..n : ~ConvergedRound(log[i])
           /\ pc[r] = "killLoser" =>
                 /\ cyc[r].round = n
                 /\ n <= Max(m, 0)
                 /\ \A i \in 1..(n - 1) : ~ConvergedRound(log[i])
                 /\ n < m => (n >= 1 /\ ConvergedRound(log[n]))
                 /\ obs[r].ended = ""
                 /\ \A i \in DOMAIN out[r].notified :
                       out[r].notified[i].level # "error"

\* max rounds 3 and a first round without a Disagreed marker: one round
C9_Witness ==
    \E r \in Runs :
        /\ pc[r] = "killLoser"
        /\ config[r].maxRounds = 3
        /\ Len(cyc[r].log) = 1
        /\ cyc[r].round = 1

\* the score of a response in half points: 2 per Agreed, 1 per Partially agreed
HalfPoints(body) == 2 * AgreedMarkers(body) + PartialMarkers(body)
\* the sums of the scores of reviewer B's and of reviewer A's responses
RECURSIVE TotalA(_)
TotalA(log) ==
    IF log = <<>> THEN 0 ELSE HalfPoints(Head(log).b) + TotalA(Tail(log))
RECURSIVE TotalB(_)
TotalB(log) ==
    IF log = <<>> THEN 0 ELSE HalfPoints(Head(log).a) + TotalB(Tail(log))

\* C10: At winner selection the accumulated scores are the sums, over the
\* rounds performed, of the scores of the other reviewer's responses (Agreed
\* markers plus half the Partially agreed markers); the reviewer with the
\* strictly larger total is the winner and the other the loser, and on equal
\* totals, no round scored included, the winner is reviewer A, the first
\* spawned.
C10_WinnerSelection ==
    \A r \in Runs : pc[r] = "killLoser" =>
        LET c == cyc[r]
            totalA == TotalA(c.log)
            totalB == TotalB(c.log)
        IN /\ c.agreedByB = totalA
           /\ c.agreedByA = totalB
           /\ c.agentA[3] = "reviewer-a" /\ c.agentB[3] = "reviewer-b"
           /\ totalA > totalB => (c.winner = c.agentA /\ c.loser = c.agentB)
           /\ totalB > totalA => (c.winner = c.agentB /\ c.loser = c.agentA)
           /\ totalA = totalB => (c.winner = c.agentA /\ c.loser = c.agentB)
           /\ c.winnerName = c.winner[3]
           /\ activeAgents = <<c.winner>>

\* a tie on a total that is not zero
C10_Witness ==
    \E r \in Runs :
        /\ pc[r] = "killLoser"
        /\ TotalA(cyc[r].log) = TotalB(cyc[r].log)
        /\ TotalA(cyc[r].log) = 3
        /\ cyc[r].winner = cyc[r].agentA

\* ---- failures

\* C11: Every failure of a background run is delivered on the message channel
\* of the final report (pi.sendUserMessage): a run that has failed has sent a
\* message, and for the loop that message is the partial report.
C11_FailureDelivered ==
    \A r \in Runs : obs[r].ended = "failed" =>
        /\ out[r].messages # <<>>
        /\ LoopRun(r) => out[r].messages[Len(out[r].messages)].kind = "partial"

\* ---- the consensus parser

\* the text has a Verdict heading that states APPROVE, in any letter case
StatesApprove(raw) ==
    \E i \in 1..Len(raw) :
        raw[i].k = "verdict" /\ raw[i].v \in {"APPROVE", "approve"}
\* the text has a third-level heading with one of the titles
HasSection(raw, titles) ==
    \E i \in 1..Len(raw) : raw[i].k = "h3" /\ raw[i].v \in titles

\* C12: For every consensus text the parser returns a report: its verdict is
\* one of the two verdicts and is APPROVE only when the text has a Verdict
\* heading that states APPROVE; the counts are natural numbers; and a section
\* that the text does not have gives the count 0 or no dismissed item.
C12_ParserTotal ==
    \A r \in Runs : \A i \in 1..Len(loop[r].history) :
        LET c == loop[r].history[i].consensus
        IN /\ c.verdict \in {"APPROVE", "CHANGES REQUIRED"}
           /\ c.verdict = "APPROVE" => StatesApprove(c.raw)
           /\ ~StatesApprove(c.raw) => c.verdict = "CHANGES REQUIRED"
           /\ c.criticalCount \in Nat /\ c.warningCount \in Nat
           /\ ~HasSection(c.raw, {"Critical Issues"}) => c.criticalCount = 0
           /\ ~HasSection(c.raw, {"Warnings"}) => c.warningCount = 0
           /\ ~HasSection(c.raw, {"Dismissed Non-Issues", "Agreed Non-Issues"}) =>
                 c.dismissedItems = <<>>

\* the report of a text without any heading whose prose mentions APPROVE
C12_Witness ==
    \E r \in Runs :
        /\ Len(loop[r].history) = 1
        /\ loop[r].history[1].consensus.raw =
              <<Line("prose", "APPROVE"), Line("item", "x")>>
        /\ loop[r].history[1].consensus.verdict = "CHANGES REQUIRED"
        /\ loop[r].history[1].consensus.criticalCount = 0

\* ---- the merge base

\* C13: When both merge-base lookups exit non-zero or print nothing, the
\* command reports an error and aborts: the step that aborts an invocation
\* leaves the active handles, the labels, the timer and every worker handle
\* as they were (so the gate is as open as before) and adds one error notice
\* and no message; the aborted invocation has spawned no worker and started
\* no cycle; and no invocation spawns a worker without a merge base.
C13_MergeBaseFailureAborts ==
    [][\A r \in Runs :
        /\ (\E h \in DOMAIN agents' : agents'[h].run = r) => config'[r].mergeBase # ""
        /\ (pc[r] # "aborted" /\ pc'[r] = "aborted") =>
          /\ pc[r] = "mb2"
          /\ UNCHANGED <<activeAgents, phase, cycleInfo, widgetTimer, agents>>
          /\ out'[r].notified =
                Append(out[r].notified, [level |-> "error", kind |-> "no merge base"])
          /\ out'[r].messages = <<>>
          /\ \A h \in DOMAIN agents' : agents'[h].run # r
          /\ obs'[r] = NoObs
          /\ config'[r].mergeBase = ""]_vars

\* an invocation that was accepted after the one before it had aborted
C13_Witness ==
    /\ pc[1] = "aborted"
    /\ DOMAIN agents = {}
    /\ pc[2] = "mb1"

\* ---- the parallel phases

Issued(send) == send.st \in {"pending", "done"}
Untouched(h) == agents[h].kills = 0

\* C14: Each parallel phase is a fork-join. While the independent reviews or
\* a debate round are in progress both sends have been issued, to reviewer A
\* and to reviewer B, and at least one is still pending; nothing of a later
\* phase has happened: during the reviews no response has been taken over, no
\* round started and nothing scored; during round k only the k-1 rounds before
\* it have been scored and the responses taken over are those of round k-1;
\* no winner is selected and neither reviewer terminated. At winner selection
\* every round performed has both its responses.
C14_ForkJoin ==
    \A r \in Runs :
        LET c == cyc[r]
        IN /\ pc[r] \in {"review", "debate"} =>
                 /\ Issued(c.sendA) /\ c.sendA.to = c.agentA
                 /\ Issued(c.sendB) /\ c.sendB.to = c.agentB
                 /\ c.sendA.st = "pending" \/ c.sendB.st = "pending"
                 /\ c.winner = NoAgent
                 /\ Untouched(c.agentA) /\ Untouched(c.agentB)
           /\ pc[r] = "review" =>
                 /\ c.lastResponseA = NoResponse /\ c.lastResponseB = NoResponse
                 /\ c.round = 0 /\ c.log = <<>>
                 /\ c.agreedByA = 0 /\ c.agreedByB = 0
           /\ pc[r] = "debate" =>
                 /\ c.lastResponseA.from = c.agentA
                 /\ c.lastResponseB.from = c.agentB
                 /\ c.lastResponseA.round = c.round - 1
                 /\ c.lastResponseB.round = c.round - 1
                 /\ Len(c.log) = c.round - 1
                 /\ c.agreedByB = TotalA(c.log) /\ c.agreedByA = TotalB(c.log)
           /\ pc[r] = "killLoser" =>
                 /\ c.sendA.st = "none" /\ c.sendB.st = "none"
                 /\ Len(c.log) = c.round
                 /\ c.round > 0 =>
                       /\ c.lastResponseA = Response(c.agentA, c.round, c.log[c.round].a)
                       /\ c.lastResponseB = Response(c.agentB, c.round, c.log[c.round].b)

\* round 2 of a debate in which reviewer B has answered and reviewer A has not
C14_Witness ==
    \E r \in Runs :
        /\ pc[r] = "debate" /\ cyc[r].round = 2
        /\ cyc[r].sendB.st = "done" /\ cyc[r].sendA.st = "pending"

\* C15: In debate round 1 each reviewer is sent the other reviewer's
\* independent review, and in round k > 1 the other reviewer's response of
\* round k-1: the response in a debate prompt was written by the other
\* reviewer in the round before (round 0 is the independent review), and for
\* k > 1 it is the text that reviewer returned in round k-1.
C15_OthersLatestResponse ==
    \A r \in Runs : pc[r] = "debate" =>
        LET c == cyc[r]
            k == c.round
        IN /\ c.sendA.to = c.agentA /\ c.sendB.to = c.agentB
           /\ c.sendA.prompt.kind = "debate" /\ c.sendB.prompt.kind = "debate"
           /\ c.sendA.prompt.otherName = "reviewer-b"
           /\ c.sendB.prompt.otherName = "reviewer-a"
           /\ c.sendA.prompt.other.from = c.agentB
           /\ c.sendB.prompt.other.from = c.agentA
           /\ c.sendA.prompt.other.round = k - 1
           /\ c.sendB.prompt.other.round = k - 1
           /\ k > 1 =>
                 /\ c.sendA.prompt.other.body = c.log[k - 1].b
                 /\ c.sendB.prompt.other.body = c.log[k - 1].a

\* round 3, whose prompts carry two different responses of round 2
C15_Witness ==
    \E r \in Runs :
        /\ pc[r] = "debate" /\ cyc[r].round = 3
        /\ cyc[r].sendA.prompt.other.round = 2
        /\ cyc[r].sendA.prompt.other.body # cyc[r].sendB.prompt.other.body
        /\ cyc[r].log[1] # cyc[r].log[2]

\* ---- winner and loser

\* from winner selection to the return of the cycle: the loser has been
\* terminated and is sent nothing, the winner has not been terminated, and
\* the consensus prompt is out only after the loser's termination has settled
LoserGoneWinnerKept(r) ==
    LET c == cyc[r]
    IN /\ pc[r] \in {"killLoser", "consensus"} =>
             /\ c.winner \in DOMAIN agents /\ c.loser \in DOMAIN agents
             /\ c.winner # c.loser
             /\ agents[c.loser].kills = 1
             /\ agents[c.winner].kills = 0
             /\ c.sendA.st = "none" /\ c.sendB.st = "none"
       /\ pc[r] = "killLoser" => c.sendW.st = "none"
       /\ pc[r] = "consensus" =>
             c.sendW = Pending(c.winner, consensusPrompt)

HandlesOf(r) == {h \in DOMAIN agents : agents[h].run = r}
AliveOf(r) == {h \in Spawned(r) : agents[h].kills = 0}

\* C17: While a loop run is in a cycle every handle of an earlier cycle has
\* been terminated; while reviewer A of a cycle is being spawned every other
\* handle of the run has been terminated; at most two handles of the run are
\* alive; and every prompt that is out was sent to a handle of the current
\* cycle.
C17_OneCycleOfHandles ==
    \A r \in Runs : LoopRun(r) =>
        LET n == loop[r].cycle
            c == cyc[r]
            Current(send) == /\ send.to \in HandlesOf(r)
                             /\ agents[send.to].cycle = n
        IN /\ Cardinality(AliveOf(r)) <= 2
           /\ n > 0 =>
                 \A h \in HandlesOf(r) :
                     /\ agents[h].cycle <= n
                     /\ agents[h].cycle < n => Terminated(h)
           /\ pc[r] = "graceA" =>
                 \A h \in HandlesOf(r) \ {c.spawning} : Terminated(h)
           /\ pc[r] \in {"review", "debate"} =>
                 /\ c.sendA.st = "pending" => Current(c.sendA)
                 /\ c.sendB.st = "pending" => Current(c.sendB)
           /\ pc[r] = "consensus" => Current(c.sendW)
           /\ pc[r] = "fix" => Current(loop[r].send)

\* the reviews of cycle 2: two handles alive, the two of cycle 1 terminated
C17_Witness ==
    \E r \in Runs :
        /\ LoopRun(r) /\ loop[r].cycle = 2 /\ pc[r] = "review"
        /\ Cardinality(AliveOf(r)) = 2
        /\ Cardinality({h \in HandlesOf(r) : Terminated(h)}) = 2

\* ---- the shared state

\* what only the code of invocation r changes
LocalsOf(r) == <<pc[r], command[r], config[r], cyc[r], loop[r], iter[r], out[r], obs[r]>>
InActive(h) == \E i \in 1..Len(activeAgents) : activeAgents[i] = h

\* C18: Nothing done by one invocation terminates a handle of another run
\* that is in progress or drops it from the active handles: in a step that is
\* not a step of run q, a run in progress, every handle of q keeps its count
\* of terminations and stays among the active handles if it was there.
C18_SharedStateOwned ==
    [][\A q \in Runs : (Active(q) /\ LocalsOf(q)' = LocalsOf(q)) =>
          \A h \in DOMAIN agents : agents[h].run = q =>
              /\ agents'[h].kills = agents[h].kills
              /\ InActive(h) => InActive(h)']_vars

\* ---- the fix step

\* C19: A failed lookup of the commit hash is not a failure of the cycle:
\* whatever the lookup does, the step that ends it calls the termination of
\* the winner with no error on its way to the caller, and the entry of the
\* cycle has the hash or no commit identifier; and when that termination has
\* settled the loop goes on, to the next cycle or to the report of max cycles.
C19_CommitLookupNotFatal ==
    [][\A r \in Runs :
          /\ (pc[r] = "commit" /\ pc'[r] # "commit") =>
                /\ pc'[r] = "killFix"
                /\ ~loop'[r].thrown
                /\ agents'[loop[r].result.winner].kills = 1
                /\ loop'[r].history[Len(loop[r].history)].fixCommit
                      \in {Undef, "abc1234"}
          /\ (pc[r] = "killFix" /\ pc'[r] # "killFix" /\ ~loop[r].thrown) =>
                obs'[r].ended \in {"", "max"}]_vars

\* ---- the history

\* a step of run r within its loop, and the histories before and after it
InLoop(r) == LoopRun(r) /\ loop[r].cycle > 0 /\ loop'[r].cycle > 0
\* the history grows by at most one entry, appended when a cycle returns its
\* consensus and carrying the next cycle index
OneEntryPerCycle(r) ==
    LET h == loop[r].history
        g == loop'[r].history
    IN /\ Len(g) \in {Len(h), Len(h) + 1}
       /\ Len(g) = Len(h) + 1 <=> (pc[r] = "consensus" /\ pc'[r] # "consensus")
       /\ \A i \in 1..Len(g) : g[i].cycle = i
       /\ Len(g) \in {loop'[r].cycle - 1, loop'[r].cycle}

\* C20, as stated: the history is append-only, one entry per cycle that
\* returns a consensus, with the next cycle index, and no step changes any
\* field of an entry that has been appended.
C20_NeverRewritten ==
    [][\A r \in Runs : InLoop(r) =>
          /\ OneEntryPerCycle(r)
          /\ \A i \in 1..Len(loop[r].history) :
                loop'[r].history[i] = loop[r].history[i]]_vars

\* C20, amended: the history is append-only, one entry per cycle that returns
\* a consensus, with the next cycle index; no step changes the cycle index,
\* the consensus or the fixer identifier of an appended entry, nor any field
\* of the entry of an earlier cycle; the commit identifier of the last entry
\* is changed by one step only, the end of the commit lookup of its own
\* cycle, from absent to the value looked up.
C20_FilledInOnce ==
    [][\A r \in Runs : InLoop(r) =>
          /\ OneEntryPerCycle(r)
          /\ \A i \in 1..Len(loop[r].history) :
                LET e == loop[r].history[i]
                    f == loop'[r].history[i]
                IN /\ f.cycle = e.cycle
                   /\ f.consensus = e.consensus
                   /\ f.fixerName = e.fixerName
                   /\ f.fixCommit # e.fixCommit =>
                         /\ i = Len(loop[r].history) /\ i = loop[r].cycle
                         /\ pc[r] = "commit"
                         /\ e.fixCommit = Undef]_vars

\* cycle 2 at its commit lookup: the entry of cycle 1 has its commit
\* identifier, the entry of cycle 2 has its fixer and no commit identifier yet
C20_Witness ==
    \E r \in Runs :
        /\ LoopRun(r) /\ pc[r] = "commit" /\ Len(loop[r].history) = 2
        /\ loop[r].history[1].fixCommit = "abc1234"
        /\ loop[r].history[2].fixerName # Undef
        /\ loop[r].history[2].fixCommit = Undef

\* ---- the numeric settings

\* a setting that is absent, empty, without a leading numeral, or zero
Unusable(v) ==
    \/ v.t \in {"undefined", "empty", "text"}
    \/ v.t \in {"numeral", "numeral+junk"} /\ v.n = 0
\* the run has read its configuration
Configured(r) == pc[r] \notin {"idle", "rejected"}

\* C21: For every value of the two numeric settings, the configuration read
\* at invocation has max debate rounds and max cycles of at least 1, and they
\* are 3 and 5 when the setting is absent or unusable; so a loop run that
\* stopped at a clean consensus or at max cycles has performed at least one
\* review cycle, and a cycle that is selecting its winner has held at least
\* one debate round.
C21_PositiveSettings ==
    /\ \A er \in Settings(MaxRoundsSetting), ec \in Settings(MaxCyclesSetting) :
          /\ Unusable(er) => getConfig(er, ec).maxRounds = 3
          /\ Unusable(ec) => getConfig(er, ec).maxCycles = 5
    /\ \A r \in Runs : Configured(r) =>
          /\ config[r].maxRounds >= 1
          /\ config[r].maxCycles >= 1
          /\ (LoopRun(r) /\ obs[r].ended \in {"clean", "max"}) =>
                Len(obs[r].passed) >= 1
          /\ pc[r] = "killLoser" => Len(cyc[r].log) >= 1

\* ---- the result line of the loop's reports

\* the cycle's fix prompt has been sent
FixStepTaken(b) == b.fixedBy # Undef

\* C22: The result line of every report the loop delivers agrees with how the
\* loop ended.  The report says APPROVED exactly when the loop stopped through
\* the clean check, and then it is a final report of N cycles, N the cycle of
\* the stop, whose last cycle is clean and had no fix step.  A report
\* delivered at max cycles and a partial report after a failure say "issues
\* remain".  A report whose last cycle had a fix step, whose changes no later
\* cycle has reviewed, never says APPROVED.
C22_ResultLineAgrees ==
    \A r \in Runs : LoopRun(r) =>
        \A i \in 1..Len(out[r].messages) :
            LET m == out[r].messages[i]
                rep == m.report
            IN /\ m.kind \in {"report", "partial"}
               /\ rep.result \in {"APPROVED", "issues remain"}
               /\ rep.result = "APPROVED" <=> obs[r].ended = "clean"
               /\ obs[r].ended = "clean" =>
                     /\ m.kind = "report"
                     /\ rep.cycles = Len(obs[r].passed)
                     /\ rep.cycles >= 1
                     /\ CleanBlock(rep.blocks[rep.cycles])
               /\ (m.kind = "partial" \/ obs[r].ended \in {"max", "failed"}) =>
                     rep.result = "issues remain"
               /\ (rep.cycles >= 1 /\ FixStepTaken(rep.blocks[rep.cycles])) =>
                     rep.result = "issues remain"

\* a loop that failed after the fix step of a cycle whose consensus was
\* APPROVE with one warning: its partial report says "issues remain"
C22_Witness ==
    \E r \in Runs :
        /\ LoopRun(r) /\ obs[r].ended = "failed"
        /\ Len(out[r].messages) = 1
        /\ out[r].messages[1].kind = "partial"
        /\ Delivered(r).cycles = 2
        /\ Delivered(r).blocks[2].verdict = "APPROVE"
        /\ Delivered(r).blocks[2].warnings = 1
        /\ FixStepTaken(Delivered(r).blocks[2])
        /\ Delivered(r).result = "issues remain"

\* ---- the gate reopens

\* the invocation passed the gate
Accepted(r) == pc[r] \notin {"idle", "rejected"}
\* the invocation is over: its cleanup has finished, or it ended before
\* the background run started (no merge base, or the lookup threw)
Settled(r) == pc[r] \in {"done", "aborted", "threw"}
\* the background run of the invocation has started
Started(r) == Accepted(r) /\ pc[r] \notin {"mb1", "mb2", "aborted", "threw"}
GateOpen == Len(activeAgents) = 0

\* C23: When every awaited operation eventually returns or fails, every
\* accepted invocation is eventually over, and a background run that was
\* started eventually finishes its cleanup; the step that finishes a cleanup
\* leaves activeAgents empty and the phase and cycle labels cleared; an
\* invocation of either command made when every accepted invocation is over
\* is accepted; and the gate is open again and again, whatever the outcomes
\* of the runs were.
C23_GateReopens ==
    /\ \A r \in Runs : Accepted(r) ~> Settled(r)
    /\ \A r \in Runs : Started(r) ~> pc[r] = "done"
    /\ [][\A r \in Runs : (pc[r] # "done" /\ pc'[r] = "done") =>
             /\ activeAgents' = <<>>
             /\ phase' = NoPhase
             /\ cycleInfo' = NoCycleInfo]_vars
    /\ [][\A r \in Runs :
             ( /\ pc[r] = "idle" /\ pc'[r] # "idle"
               /\ \A q \in Runs \ {r} : Accepted(q) => Settled(q) )
             => pc'[r] = "mb1"]_vars
    /\ []<>GateOpen

\* a loop run that failed has finished its cleanup, and the invocation made
\* after it has been accepted and has ended with a clean consensus
C23_Witness ==
    /\ pc[1] = "done" /\ obs[1].ended = "failed"
    /\ pc[2] = "done" /\ obs[2].ended \in {"clean", "complete"}
    /\ \E h \in DOMAIN agents : agents[h].run = 1 /\ agents[h].kills >= 1
    /\ GateOpen /\ phase = NoPhase /\ cycleInfo = NoCycleInfo

====
